---- MODULE Spec2Model ----
(***************************************************************************)
(* Fungible-asset contract layer of rgb-node: the transition Processor     *)
(* (src/contracts/fungible/processor.rs) and the Runtime request loop      *)
(* (src/contracts/fungible/runtime.rs).                                    *)
(***************************************************************************)
EXTENDS Integers, Sequences, FiniteSets, TLC

VARIABLES
    \* ---- Processor under test (SpecTransfer / SpecIssue) ----
    asset,              \* the Asset snapshot handed to Processor::transfer
    inputs,             \* Vec<OutPoint>
    ours,               \* Vec<Outcoins>
    theirs,             \* Vec<Outcoincealed>
    change_outpoint,    \* Option<OutpointHash>
    t_result,           \* Result<Transition, ServiceErrorDomain> of transfer
    issue_structure,    \* IssueStructure
    allocations,        \* Vec<Outcoins> given to Processor::issue
    precision,          \* u8
    i_result,           \* Result<(Asset, Genesis), ServiceErrorDomain> of issue
    \* ---- Runtime (Spec) ----
    pc,                 \* where the Runtime's single thread of control stands
    cacher,             \* the Cache: contract id -> Asset
    request,            \* the client request being processed
    stash_rpc,          \* the request sent to Stash and awaiting its reply
    reply,              \* the reply prepared for the client
    received,           \* client requests received so far
    replied,            \* replies sent to the client so far
    cache0,             \* the Cache as it was when `request` was received
    stash_state,        \* Stash round trip of `request`: none, sent, success, failed
    stash_calls,        \* requests sent to Stash for `request`
    stash_reply,        \* what last came back from Stash, as it came
    accepted,           \* the Accept that last succeeded; whether `request` repeats it
    \* ---- Coin descriptors (SpecCoins) ----
    c_value,            \* a SealCoins, OutpointCoins or ConsealCoins value
    c_other,            \* a second value, compared with c_value
    c_text,             \* Display output of c_value
    c_parsed,           \* Result of FromStr on c_text
    c_cmp               \* ==, cmp and hash of c_value against c_other

targs == <<inputs, ours, theirs, change_outpoint, t_result,
           issue_structure, allocations, precision, i_result>>
tvars == <<asset, targs>>
cvars == <<c_value, c_other, c_text, c_parsed, c_cmp>>
pvars == <<tvars, cvars>>
rvars == <<pc, cacher, request, stash_rpc, reply, received, replied, cache0,
           stash_state, stash_calls, stash_reply, accepted>>
vars == <<pvars, rvars>>

-----------------------------------------------------------------------------
(* Bounds of the explored input space *)
MaxInputs == 2
MaxOurs == 1
MaxTheirs == 1
MaxIssueAllocations == 2
MaxRequests == 3

(* u64 arithmetic; the 64-bit width is scaled to 30 bits so that sums stay  *)
(* inside TLC's integers.                                                   *)
U64Modulus == 1073741824

None == "None"
NotCalled == [ok |-> FALSE, err |-> "NotCalled"]
NoStructure == [kind |-> "None"]

\* The Runtime does not take part in the Processor specifications.
RuntimeIdle ==
    /\ pc = "idle"
    /\ cacher = [id \in {} |-> 0] /\ cache0 = [id \in {} |-> 0]
    /\ request = [kind |-> "None"] /\ stash_rpc = [kind |-> "None"]
    /\ reply = [kind |-> "None", info |-> ""]
    /\ received = 0 /\ replied = 0
    /\ stash_state = "none" /\ stash_calls = 0
    /\ stash_reply = [kind |-> "None", info |-> ""]
    /\ accepted = [req |-> [kind |-> "None"], again |-> FALSE]

\* The coin descriptors take part in SpecCoins only.
CoinsIdle ==
    /\ c_value = [type |-> "None"] /\ c_other = [type |-> "None"]
    /\ c_text = <<>>
    /\ c_parsed = [ok |-> FALSE, err |-> "NotCalled"]
    /\ c_cmp = [done |-> FALSE]

OutPoints == {"o1", "o2", "o3"}
HeldOutPoints == {"o1", "o2"}
Builds == {"debug", "release"}

\* Display amounts are decimals with one fractional digit, kept as a number of
\* tenths: 10 is 1.0, 15 is 1.5.
DisplayCoins == {10, 15}
Precisions == {0, 1}

SeqsUpTo(S, n) == UNION {[1..k -> S] : k \in 0..n}

RECURSIVE Pow10(_)
Pow10(p) == IF p = 0 THEN 1 ELSE 10 * Pow10(p - 1)

\* Coins::transmutate(coins, precision): the display amount times 10^precision,
\* truncated to an integer.
transmutate(coins, prec) == (coins * Pow10(prec)) \div 10

Add64(a, b) == (a + b) % U64Modulus

\* The true (unbounded) sum of a sequence of amounts.
RECURSIVE SumSeq(_)
SumSeq(s) == IF s = <<>> THEN 0 ELSE Head(s) + SumSeq(Tail(s))

-----------------------------------------------------------------------------
(* Asset view *)

\* The transition outputs an Asset may know of, in the order the Asset keeps
\* them, and the amount each one assigns.
AllocIds == << [node_id |-> "n1", index |-> 0],
               [node_id |-> "n1", index |-> 1],
               [node_id |-> "n2", index |-> 0] >>
AllocAmount == <<1, 5, 5>>

Allocation(k) == [node_id |-> AllocIds[k].node_id, index |-> AllocIds[k].index,
                  amount |-> AllocAmount[k]]

RECURSIVE AllocsAt(_, _, _)
AllocsAt(place, o, k) ==
    IF k > Len(AllocIds) THEN <<>>
    ELSE (IF place[k] = o THEN <<Allocation(k)>> ELSE <<>>) \o AllocsAt(place, o, k + 1)

\* An Asset whose known allocations are those `place` puts at an outpoint; the
\* held outpoints have an entry (possibly an empty list), the others have none.
AssetWith(id, prec, place) ==
    [id |-> id, fractional_bits |-> prec,
     supply |-> [issued |-> SumSeq(AllocAmount), total |-> SumSeq(AllocAmount)],
     known_allocations |-> [o \in HeldOutPoints |-> AllocsAt(place, o, 1)]]

Placements == [1..Len(AllocIds) -> HeldOutPoints \cup {None}]

\* Asset::allocations(&self, seal) -> Option<&Vec<Allocation>>
asset_allocations(a, seal) ==
    IF seal \in DOMAIN a.known_allocations
    THEN [some |-> TRUE, v |-> a.known_allocations[seal]]
    ELSE [some |-> FALSE]

-----------------------------------------------------------------------------
(* Processor::transfer *)

Err(msg) == [ok |-> FALSE, err |-> msg]

\* "Collecting all input allocations": the loop over `inputs`, stopping at the
\* first unknown input.
RECURSIVE MutInputAllocationsNoEmptyCheck(_, _)
MutInputAllocationsNoEmptyCheck(a, ins) ==
    IF ins = <<>> THEN [ok |-> TRUE, allocs |-> <<>>]
    ELSE LET found == asset_allocations(a, Head(ins)) IN
         IF ~found.some THEN Err("Unknown input")
         ELSE LET rest == MutInputAllocationsNoEmptyCheck(a, Tail(ins)) IN
              IF rest.ok THEN [ok |-> TRUE, allocs |-> found.v \o rest.allocs]
              ELSE rest

RECURSIVE input_allocations(_, _)
input_allocations(a, ins) ==
    IF ins = <<>> THEN [ok |-> TRUE, allocs |-> <<>>]
    ELSE LET found == asset_allocations(a, Head(ins)) IN
         IF ~found.some THEN Err("Unknown input")
         ELSE IF Len(found.v) = 0 THEN Err("Unknown input")
         ELSE LET rest == input_allocations(a, Tail(ins)) IN
              IF rest.ok THEN [ok |-> TRUE, allocs |-> found.v \o rest.allocs]
              ELSE rest

\* fold(0u64, |acc, x| acc + x) in wrapping arithmetic
RECURSIVE Fold64(_, _)
Fold64(acc, s) == IF s = <<>> THEN acc ELSE Fold64(Add64(acc, Head(s)), Tail(s))

Amounts(allocs) == [k \in 1..Len(allocs) |-> allocs[k].amount]

total_inputs(allocs) == Fold64(0, Amounts(allocs))

allocations_ours(a, os) ==
    [k \in 1..Len(os) |->
        [seal |-> os[k].outpoint, amount |-> transmutate(os[k].coins, a.fractional_bits)]]

allocations_theirs(a, ts) ==
    [k \in 1..Len(ts) |->
        [seal |-> ts[k].seal_confidential,
         amount |-> transmutate(ts[k].coins, a.fractional_bits)]]

total_outputs(a, os, ts) ==
    Fold64(Fold64(0, Amounts(allocations_ours(a, os))), Amounts(allocations_theirs(a, ts)))

\* The indexes pushed under one node id, in the order of the input allocations.
RECURSIVE IndexesOf(_, _)
IndexesOf(allocs, n) ==
    IF allocs = <<>> THEN <<>>
    ELSE (IF Head(allocs).node_id = n THEN <<Head(allocs).index>> ELSE <<>>)
         \o IndexesOf(Tail(allocs), n)

ancestors(allocs) ==
    [n \in {allocs[k].node_id : k \in 1..Len(allocs)} |->
        [Assets |-> IndexesOf(allocs, n)]]

\* The balance resolution: the confidential outputs after the change branch,
\* or the error.
MutBalanceNoLowerCheck(tin, tout, their_allocs, change) ==
    IF tin # tout
    THEN IF change = None THEN Err("Excess input with no change")
         ELSE [ok |-> TRUE,
               theirs |-> Append(their_allocs,
                                 [seal |-> change, amount |-> (tin - tout) % U64Modulus])]
    ELSE [ok |-> TRUE, theirs |-> their_allocs]

MutBalanceBurnExcess(tin, tout, their_allocs, change) ==
    IF tin < tout THEN Err("Input amount is lower than output amount")
    ELSE [ok |-> TRUE, theirs |-> their_allocs]

MutBalanceAlwaysChange(tin, tout, their_allocs, change) ==
    IF tin < tout THEN Err("Input amount is lower than output amount")
    ELSE IF tin >= tout /\ change # None
    THEN [ok |-> TRUE,
          theirs |-> Append(their_allocs, [seal |-> change, amount |-> tin - tout])]
    ELSE IF tin > tout THEN Err("Excess input with no change")
    ELSE [ok |-> TRUE, theirs |-> their_allocs]

MutBalanceWrongChange(tin, tout, their_allocs, change) ==
    IF tin < tout THEN Err("Input amount is lower than output amount")
    ELSE IF tin > tout
    THEN IF change = None THEN Err("Excess input with no change")
         ELSE [ok |-> TRUE,
               theirs |-> Append(their_allocs, [seal |-> change, amount |-> tin])]
    ELSE [ok |-> TRUE, theirs |-> their_allocs]

balance(tin, tout, their_allocs, change) ==
    IF tin < tout THEN Err("Input amount is lower than output amount")
    ELSE IF tin > tout
    THEN IF change = None THEN Err("Excess input with no change")
         ELSE [ok |-> TRUE,
               theirs |-> Append(their_allocs, [seal |-> change, amount |-> tin - tout])]
    ELSE [ok |-> TRUE, theirs |-> their_allocs]

\* A debug build aborts on u64 overflow of the two accumulations; a release
\* build wraps.
Overflows(a, allocs, os, ts) ==
    \/ SumSeq(Amounts(allocs)) >= U64Modulus
    \/ SumSeq(Amounts(allocations_ours(a, os)))
         + SumSeq(Amounts(allocations_theirs(a, ts))) >= U64Modulus

transfer(a, ins, os, ts, change, build) ==
    LET got == input_allocations(a, ins) IN
    IF ~got.ok THEN got
    ELSE IF build = "debug" /\ Overflows(a, got.allocs, os, ts) THEN Err("panic")
    ELSE LET bal == balance(total_inputs(got.allocs), total_outputs(a, os, ts),
                            allocations_theirs(a, ts), change) IN
         IF ~bal.ok THEN bal
         ELSE [ok |-> TRUE,
               transition |->
                 [type |-> "Transfer",
                  ancestors |-> ancestors(got.allocs),
                  input_amounts |-> Amounts(got.allocs),
                  ours |-> allocations_ours(a, os),
                  theirs |-> bal.theirs]]

\* What Processor::transfer leaves in the Asset it borrows (`asset: &mut
\* Asset`): it calls allocations() and fractional_bits() on it and nothing
\* that writes.
MutTransferTakesInputs(a, ins) ==
    [a EXCEPT !.known_allocations =
        [o \in DOMAIN @ |-> IF \E i \in 1..Len(ins) : ins[i] = o THEN <<>> ELSE @[o]]]

asset_after_transfer(a, ins) == a

-----------------------------------------------------------------------------
(* Specification of Processor::transfer over a bounded input space *)

OutcoinsSet == [coins : DisplayCoins, outpoint : {"o1"}]
OutcoincealedSet == [coins : DisplayCoins, seal_confidential : {"h1"}]

InitTransfer ==
    /\ \E prec \in Precisions, place \in Placements :
          asset = AssetWith("c1", prec, place)
    /\ inputs \in SeqsUpTo(OutPoints, MaxInputs)
    /\ ours \in SeqsUpTo(OutcoinsSet, MaxOurs)
    /\ theirs \in SeqsUpTo(OutcoincealedSet, MaxTheirs)
    /\ change_outpoint \in {None, "h2"}
    /\ t_result = NotCalled
    /\ issue_structure = NoStructure /\ allocations = <<>> /\ precision = 0
    /\ i_result = NotCalled
    /\ CoinsIdle
    /\ RuntimeIdle

Transfer ==
    /\ t_result = NotCalled
    /\ \E build \in Builds :
          t_result' = transfer(asset, inputs, ours, theirs, change_outpoint, build)
    /\ asset' = asset_after_transfer(asset, inputs)
    /\ UNCHANGED <<inputs, ours, theirs, change_outpoint,
                   issue_structure, allocations, precision, i_result>>
    /\ UNCHANGED cvars
    /\ UNCHANGED rvars

NextTransfer == Transfer

SpecTransfer == InitTransfer /\ [][NextTransfer]_vars

-----------------------------------------------------------------------------
(* Processor::issue *)

\* Asset::try_from(genesis): the Asset view of a genesis; every allocation of
\* the genesis is known at its outpoint, under the genesis node and its position.
RECURSIVE GenesisAllocsAt(_, _, _, _)
GenesisAllocsAt(id, assigned, o, k) ==
    IF k > Len(assigned) THEN <<>>
    ELSE (IF assigned[k].seal = o
          THEN <<[node_id |-> id, index |-> k - 1, amount |-> assigned[k].amount]>>
          ELSE <<>>) \o GenesisAllocsAt(id, assigned, o, k + 1)

asset_try_from(genesis) ==
    [id |-> genesis.contract_id,
     fractional_bits |-> genesis.metadata.Precision,
     supply |-> [issued |-> genesis.metadata.IssuedSupply,
                 total |-> genesis.metadata.TotalSupply],
     known_allocations |->
        [o \in {genesis.assignments.Assets[k].seal :
                    k \in 1..Len(genesis.assignments.Assets)} |->
            GenesisAllocsAt(genesis.contract_id, genesis.assignments.Assets, o, 1)]]

issue_allocations(allocs, prec) ==
    [k \in 1..Len(allocs) |->
        [seal |-> allocs[k].outpoint, amount |-> transmutate(allocs[k].coins, prec)]]

MutIssuedSupplyNotSummed(allocs, prec) ==
    IF allocs = <<>> THEN 0 ELSE transmutate(allocs[Len(allocs)].coins, prec)

issued_supply(allocs, prec) == Fold64(0, Amounts(issue_allocations(allocs, prec)))

\* total_supply, or the schema violation
MutTotalSupplyUnchecked(structure, issued, prec) ==
    IF structure.kind = "MultipleIssues"
    THEN [ok |-> TRUE, total |-> transmutate(structure.max_supply, prec)]
    ELSE [ok |-> TRUE, total |-> issued]

total_supply(structure, issued, prec) ==
    IF structure.kind = "MultipleIssues"
    THEN LET total == transmutate(structure.max_supply, prec) IN
         IF total < issued THEN Err("Schema") ELSE [ok |-> TRUE, total |-> total]
    ELSE [ok |-> TRUE, total |-> issued]

issue(ticker, structure, allocs, prec) ==
    LET issued == issued_supply(allocs, prec)
        sup == total_supply(structure, issued, prec) IN
    IF ~sup.ok THEN sup
    ELSE LET genesis ==
               [contract_id |-> ticker,
                metadata |-> [Ticker |-> ticker, Precision |-> prec,
                              IssuedSupply |-> issued, TotalSupply |-> sup.total],
                assignments |->
                    [Assets |-> issue_allocations(allocs, prec),
                     Issue |-> IF structure.kind = "MultipleIssues"
                               THEN <<structure.reissue_control>> ELSE <<>>,
                     Prune |-> <<>>]] IN
         [ok |-> TRUE, asset |-> asset_try_from(genesis), genesis |-> genesis]

-----------------------------------------------------------------------------
(* Specification of Processor::issue over a bounded input space *)

MaxSupplies == {10, 15, 30}
IssueStructures ==
    {[kind |-> "SingleIssue"]}
    \cup [kind : {"MultipleIssues"}, max_supply : MaxSupplies, reissue_control : {"o2"}]
\* 1, 1.5 and 1000 coins, at up to two fractional digits
IssueCoins == DisplayCoins \cup {10000}
IssuePrecisions == Precisions \cup {2}
IssueOutcoins == [coins : IssueCoins, outpoint : HeldOutPoints]

InitIssue ==
    /\ issue_structure \in IssueStructures
    /\ allocations \in SeqsUpTo(IssueOutcoins, MaxIssueAllocations)
    /\ precision \in IssuePrecisions
    /\ i_result = NotCalled
    /\ asset = AssetWith("c1", 0, [k \in 1..Len(AllocIds) |-> None])
    /\ inputs = <<>> /\ ours = <<>> /\ theirs = <<>> /\ change_outpoint = None
    /\ t_result = NotCalled
    /\ CoinsIdle
    /\ RuntimeIdle

Issue ==
    /\ ~i_result.ok /\ i_result.err = "NotCalled"
    /\ i_result' = issue("c1", issue_structure, allocations, precision)
    /\ UNCHANGED <<asset, inputs, ours, theirs, change_outpoint, t_result,
                   issue_structure, allocations, precision>>
    /\ UNCHANGED cvars
    /\ UNCHANGED rvars

NextIssue == Issue

SpecIssue == InitIssue /\ [][NextIssue]_vars

-----------------------------------------------------------------------------
(* Runtime: replies, Stash replies, Cache *)

ContractIds == {"c1", "c2"}
ContractOrder == <<"c1", "c2">>

NoRequest == [kind |-> "None"]
NoStash == [kind |-> "None"]
NoReply == [kind |-> "None", info |-> ""]
NoStashReply == [kind |-> "None", info |-> ""]
NoneAccepted == [req |-> NoRequest, again |-> FALSE]

Success == [kind |-> "Success", info |-> ""]
Nothing == [kind |-> "Nothing", info |-> ""]
Failure(info) == [kind |-> "Failure", info |-> info]

\* What may come back from the Stash request/reply channel: a reply of the
\* expected or of another shape, a Failure, or an error of the transport.
StashOutcomes ==
    { [kind |-> "Success", info |-> ""],
      [kind |-> "Failure", info |-> "reason"],
      [kind |-> "Genesis", info |-> ""],
      [kind |-> "Transfer", info |-> ""],
      [kind |-> "TransportError", info |-> ""] }

MutStashReqRepFailureIsOk(out) ==
    IF out.kind = "TransportError" THEN Err("Transport")
    ELSE [ok |-> TRUE, reply |-> out]

\* Runtime::stash_req_rep: Err on a transport error and on Reply::Failure,
\* otherwise the reply.
stash_req_rep(out) ==
    IF out.kind = "TransportError" THEN Err("Transport")
    ELSE IF out.kind = "Failure" THEN Err("Stash")
    ELSE [ok |-> TRUE, reply |-> out]

\* Cache::has_asset, Cache::asset, Cache::add_asset, Cache::assets
cache_has_asset(cache, id) == id \in DOMAIN cache
cache_asset(cache, id) ==
    IF id \in DOMAIN cache THEN [ok |-> TRUE, asset |-> cache[id]] ELSE Err("Cache")
cache_add_asset(cache, a, io_ok) ==
    IF io_ok
    THEN [ok |-> TRUE,
          cache |-> [id \in DOMAIN cache \cup {a.id} |-> IF id = a.id THEN a ELSE cache[id]]]
    ELSE [ok |-> FALSE, err |-> "Cache", cache |-> cache]
cache_assets(cache) ==
    SelectSeq(ContractOrder, LAMBDA id : id \in DOMAIN cache)

\* Asset::add_allocation: the allocation is added to the list kept for the
\* outpoint.
asset_add_allocation(a, outpoint, node_id, index, amount) ==
    LET al == [node_id |-> node_id, index |-> index, amount |-> amount]
        old == IF outpoint \in DOMAIN a.known_allocations
               THEN a.known_allocations[outpoint] ELSE <<>> IN
    [a EXCEPT !.known_allocations =
        [o \in DOMAIN a.known_allocations \cup {outpoint} |->
            IF o = outpoint THEN Append(old, al) ELSE a.known_allocations[o]]]

RECURSIVE RemoveFirst(_, _)
RemoveFirst(s, x) ==
    IF s = <<>> THEN <<>>
    ELSE IF Head(s) = x THEN Tail(s) ELSE <<Head(s)>> \o RemoveFirst(Tail(s), x)

\* Asset::remove_allocation: the allocation is taken off the list kept for the
\* outpoint.
asset_remove_allocation(a, outpoint, al) ==
    IF outpoint \in DOMAIN a.known_allocations
    THEN [a EXCEPT !.known_allocations[outpoint] = RemoveFirst(@, al)]
    ELSE a

-----------------------------------------------------------------------------
(* Runtime: the client requests *)

\* conceal(): the confidential form of a revealed outpoint
conceal(o) == CASE o = "o1" -> "h1" [] o = "o2" -> "h2" [] OTHER -> "h3"

GenesisOf(id) ==
    issue(id, [kind |-> "SingleIssue"], <<[coins |-> 10, outpoint |-> "o1"]>>, 0).genesis

\* State transitions a consignment may carry: fungible assignments by
\* confidential seal; `revealed` is whether assigned_state() is Some.
T1 == [node_id |-> "n1",
       assets |-> << [seal |-> "h1", revealed |-> TRUE, amount |-> 1],
                     [seal |-> "h2", revealed |-> TRUE, amount |-> 5] >>]
TBroken == [node_id |-> "n2",
            assets |-> << [seal |-> "h2", revealed |-> FALSE, amount |-> 0] >>]

Consignments ==
    [genesis : {GenesisOf("c1"), GenesisOf("c2")},
     state_transitions : {<<T1>>, <<T1, TBroken>>}]

IssueRequests ==
    [kind : {"Issue"}, ticker : {"c1"},
     structure : {[kind |-> "SingleIssue"],
                  [kind |-> "MultipleIssues", max_supply |-> 10, reissue_control |-> "o2"]},
     allocation : {<<[coins |-> 10, outpoint |-> "o1"]>>,
                   <<[coins |-> 15, outpoint |-> "o1"], [coins |-> 10, outpoint |-> "o2"]>>},
     precision : {1}]

TransferRequests ==
    [kind : {"Transfer"}, contract_id : ContractIds,
     inputs : {<<"o1">>, <<"o1", "o2">>, <<"o3">>},
     ours : {<<>>, <<[coins |-> 10, outpoint |-> "o2"]>>},
     theirs : {<<[coins |-> 15, seal_confidential |-> "h1"]>>},
     change : {None, "h2"}]

Requests ==
    IssueRequests \cup TransferRequests
    \cup [kind : {"Validate"}, consignment : Consignments]
    \cup [kind : {"Accept"}, consignment : Consignments,
          reveal_outpoints : {<<"o1">>, <<"o2", "o1">>}]
    \cup [kind : {"Forget"}, outpoint : OutPoints]
    \cup [kind : {"ImportAsset"}, genesis : {GenesisOf("c2")}]
    \cup [kind : {"ExportAsset"}, asset_id : {"c1"}]
    \cup [kind : {"Sync", "Assets", "Allocations"}]
    \cup [kind : {"Malformed"}]

-----------------------------------------------------------------------------
(* Runtime: the handlers *)

\* Runtime::import_asset after the Stash replied to AddGenesis
import_asset(cache, a, out, io_ok) ==
    LET r == stash_req_rep(out) IN
    IF ~r.ok THEN [ok |-> FALSE, err |-> r.err, cache |-> cache]
    ELSE IF r.reply.kind = "Success" THEN cache_add_asset(cache, a, io_ok)
    ELSE [ok |-> FALSE, err |-> "UnexpectedReply", cache |-> cache]

\* Runtime::accept, the walk over the fungible assignments of one transition:
\* an allocation for every assignment whose confidential seal is the conceal
\* of a revealed outpoint (the first such outpoint).
RECURSIVE MutAcceptIndexFromOne(_, _, _, _, _)
MutAcceptIndexFromOne(a, node_id, set, reveal, k) ==
    IF k > Len(set) THEN [ok |-> TRUE, asset |-> a]
    ELSE LET hits == {j \in 1..Len(reveal) : conceal(reveal[j]) = set[k].seal} IN
         IF hits = {} THEN MutAcceptIndexFromOne(a, node_id, set, reveal, k + 1)
         ELSE LET seal == reveal[CHOOSE j \in hits : \A i \in hits : j <= i] IN
              IF set[k].revealed
              THEN MutAcceptIndexFromOne(
                      asset_add_allocation(a, seal, node_id, k, set[k].amount),
                      node_id, set, reveal, k + 1)
              ELSE Err("Internal")

RECURSIVE accept_assignments(_, _, _, _, _)
accept_assignments(a, node_id, set, reveal, k) ==
    IF k > Len(set) THEN [ok |-> TRUE, asset |-> a]
    ELSE LET hits == {j \in 1..Len(reveal) : conceal(reveal[j]) = set[k].seal} IN
         IF hits = {} THEN accept_assignments(a, node_id, set, reveal, k + 1)
         ELSE LET seal == reveal[CHOOSE j \in hits : \A i \in hits : j <= i] IN
              IF set[k].revealed
              THEN accept_assignments(
                      asset_add_allocation(a, seal, node_id, k - 1, set[k].amount),
                      node_id, set, reveal, k + 1)
              ELSE Err("Internal")

RECURSIVE accept_transitions(_, _, _)
accept_transitions(a, transitions, reveal) ==
    IF transitions = <<>> THEN [ok |-> TRUE, asset |-> a]
    ELSE LET r == accept_assignments(a, Head(transitions).node_id,
                                     Head(transitions).assets, reveal, 1) IN
         IF r.ok THEN accept_transitions(r.asset, Tail(transitions), reveal) ELSE r

MutAcceptAlwaysFromGenesis(cache, acc, out, io_ok) ==
    LET r == stash_req_rep(out) IN
    IF ~r.ok THEN [ok |-> FALSE, err |-> r.err, cache |-> cache]
    ELSE IF r.reply.kind = "Success"
    THEN LET w == accept_transitions(asset_try_from(acc.consignment.genesis),
                                     acc.consignment.state_transitions,
                                     acc.reveal_outpoints) IN
         IF ~w.ok THEN [ok |-> FALSE, err |-> w.err, cache |-> cache]
         ELSE LET st == cache_add_asset(cache, w.asset, io_ok) IN
              IF st.ok THEN [ok |-> TRUE, reply |-> r.reply, cache |-> st.cache]
              ELSE st
    ELSE [ok |-> FALSE, err |-> "UnexpectedReply", cache |-> cache]

\* Runtime::accept after the Stash replied to Merge
accept(cache, acc, out, io_ok) ==
    LET r == stash_req_rep(out) IN
    IF ~r.ok THEN [ok |-> FALSE, err |-> r.err, cache |-> cache]
    ELSE IF r.reply.kind = "Success"
    THEN LET asset_id == acc.consignment.genesis.contract_id
             base == IF cache_has_asset(cache, asset_id)
                     THEN cache_asset(cache, asset_id).asset
                     ELSE asset_try_from(acc.consignment.genesis)
             w == accept_transitions(base, acc.consignment.state_transitions,
                                     acc.reveal_outpoints) IN
         IF ~w.ok THEN [ok |-> FALSE, err |-> w.err, cache |-> cache]
         ELSE LET st == cache_add_asset(cache, w.asset, io_ok) IN
              IF st.ok THEN [ok |-> TRUE, reply |-> r.reply, cache |-> st.cache]
              ELSE st
    ELSE [ok |-> FALSE, err |-> "UnexpectedReply", cache |-> cache]

MutRemoveFirstOnly(a, outpoint, allocs) ==
    IF allocs = <<>> THEN a ELSE asset_remove_allocation(a, outpoint, Head(allocs))

RECURSIVE remove_all(_, _, _)
remove_all(a, outpoint, allocs) ==
    IF allocs = <<>> THEN a
    ELSE remove_all(asset_remove_allocation(a, outpoint, Head(allocs)), outpoint,
                    Tail(allocs))

\* Runtime::forget up to the Stash request: the loop over the cached assets,
\* each one written back to the Cache inside the loop. `fail_at` is the write
\* that fails on storage (0: none does).
RECURSIVE forget_scan(_, _, _, _, _, _)
forget_scan(cache, ids, outpoint, removal_list, fail_at, n) ==
    IF ids = <<>> THEN [ok |-> TRUE, cache |-> cache, removal_list |-> removal_list]
    ELSE LET a == cache[Head(ids)]
             found == asset_allocations(a, outpoint) IN
         IF ~found.some
         THEN [ok |-> FALSE, err |-> "Cache", cache |-> cache,
               removal_list |-> removal_list]
         ELSE LET st == cache_add_asset(cache, remove_all(a, outpoint, found.v),
                                        fail_at # n)
                  removed == [k \in 1..Len(found.v) |->
                                 <<found.v[k].node_id, found.v[k].index>>] IN
              IF ~st.ok
              THEN [ok |-> FALSE, err |-> "Cache", cache |-> cache,
                    removal_list |-> removal_list \o removed]
              ELSE forget_scan(st.cache, Tail(ids), outpoint, removal_list \o removed,
                               fail_at, n + 1)

\* Runtime::forget / validate / consign / export_asset after the Stash replied:
\* the reply shapes each of them lets through.
MutExpectAnyReply(out, kinds) == stash_req_rep(out)

expect_reply(out, kinds) ==
    LET r == stash_req_rep(out) IN
    IF ~r.ok THEN r
    ELSE IF r.reply.kind \in kinds THEN r
    ELSE Err("UnexpectedReply")

\* Runtime::rpc_process on bytes that do not unmarshall: the error becomes the
\* reply.
MutUnmarshallErrorDropsRequest(req) == "recv"
MutUnmarshallErrorEndsLoop(req) == "terminal"

after_unmarshall_error(req) == "reply"

-----------------------------------------------------------------------------
(* Runtime: the state machine *)

ProcessorIdle ==
    /\ asset = AssetWith("c1", 0, [k \in 1..Len(AllocIds) |-> None])
    /\ inputs = <<>> /\ ours = <<>> /\ theirs = <<>> /\ change_outpoint = None
    /\ t_result = NotCalled
    /\ issue_structure = NoStructure /\ allocations = <<>> /\ precision = 0
    /\ i_result = NotCalled

\* The Cache is read from its file when the Runtime is built: empty, or
\* holding an asset accepted earlier.
InitialCaches ==
    { [id \in {} |-> 0],
      [id \in {"c1"} |-> AssetWith("c1", 0, <<"o1", "o2", None>>)] }

Init ==
    /\ ProcessorIdle
    /\ CoinsIdle
    /\ pc = "register"
    /\ cacher \in InitialCaches
    /\ request = NoRequest
    /\ stash_rpc = NoStash
    /\ reply = NoReply
    /\ received = 0 /\ replied = 0
    /\ cache0 = cacher
    /\ stash_state = "none"
    /\ stash_calls = 0
    /\ stash_reply = NoStashReply
    /\ accepted = NoneAccepted

MutSendStashNoWait(req) ==
    /\ stash_rpc' = req
    /\ stash_state' = "sent"
    /\ stash_calls' = stash_calls + 1
    /\ pc' = "reply"
    /\ UNCHANGED stash_reply

\* stash_req_rep: the request goes out and the Runtime waits for the reply
SendStash(req) ==
    /\ stash_rpc' = req
    /\ stash_state' = "sent"
    /\ stash_calls' = stash_calls + 1
    /\ pc' = "stash_wait"
    /\ UNCHANGED stash_reply

\* The handler ended: its result is the reply run() is about to send
Finish(r, c) ==
    /\ reply' = r
    /\ cacher' = c
    /\ stash_rpc' = NoStash
    /\ pc' = "reply"

StashDone(out) ==
    /\ stash_state' = IF stash_req_rep(out).ok THEN "success" ELSE "failed"
    /\ stash_reply' = out

\* try_run_loop: register_schema
RegisterSchema ==
    /\ pc = "register"
    /\ stash_rpc' = [kind |-> "AddSchema"]
    /\ pc' = "register_wait"
    /\ UNCHANGED <<cacher, request, accepted, reply, received, replied, cache0,
                   stash_state, stash_reply, stash_calls>>
    /\ UNCHANGED pvars

RegisterSchemaReply ==
    /\ pc = "register_wait"
    /\ \E out \in StashOutcomes :
          LET r == expect_reply(out, {"Success"}) IN
          /\ pc' = IF r.ok THEN "recv" ELSE "terminal"
          /\ stash_reply' = out
    /\ stash_rpc' = NoStash
    /\ UNCHANGED <<cacher, request, accepted, reply, received, replied, cache0,
                   stash_state, stash_calls>>
    /\ UNCHANGED pvars

\* run: recv_raw_message
RecvRequest ==
    /\ pc = "recv" /\ received < MaxRequests
    /\ \E req \in Requests :
          /\ request' = req
          /\ accepted' = IF req.kind = "Accept" /\ accepted.req.kind = "Accept"
                            /\ req = accepted.req
                         THEN [req |-> req, again |-> TRUE]
                         ELSE NoneAccepted
    /\ received' = received + 1
    /\ cache0' = cacher
    /\ stash_state' = "none" /\ stash_calls' = 0
    /\ stash_reply' = NoStashReply
    /\ reply' = NoReply
    /\ pc' = "process"
    /\ UNCHANGED <<cacher, stash_rpc, replied>>
    /\ UNCHANGED pvars

RecvFails ==
    /\ pc = "recv"
    /\ pc' = "terminal"
    /\ UNCHANGED <<cacher, request, accepted, stash_rpc, reply, received, replied,
                   cache0, stash_state, stash_reply, stash_calls>>
    /\ UNCHANGED pvars

UnmarshallError ==
    /\ pc = "process" /\ request.kind = "Malformed"
    /\ pc' = after_unmarshall_error(request)
    /\ reply' = Failure("Rpc")
    /\ UNCHANGED <<cacher, request, accepted, stash_rpc, received, replied, cache0,
                   stash_state, stash_reply, stash_calls>>
    /\ UNCHANGED pvars

RpcIssue ==
    /\ pc = "process" /\ request.kind = "Issue"
    /\ LET r == issue(request.ticker, request.structure, request.allocation,
                      request.precision) IN
       IF ~r.ok
       THEN Finish(Failure(r.err), cacher) /\ UNCHANGED <<stash_state, stash_reply,
                                                          stash_calls>>
       ELSE /\ SendStash([kind |-> "AddGenesis", genesis |-> r.genesis])
            /\ UNCHANGED <<cacher, reply>>
    /\ UNCHANGED <<request, accepted, received, replied, cache0>>
    /\ UNCHANGED pvars

RpcImportAsset ==
    /\ pc = "process" /\ request.kind = "ImportAsset"
    /\ SendStash([kind |-> "AddGenesis", genesis |-> request.genesis])
    /\ UNCHANGED <<cacher, reply, request, accepted, received, replied, cache0>>
    /\ UNCHANGED pvars

ImportAssetReply ==
    /\ pc = "stash_wait" /\ stash_rpc.kind = "AddGenesis"
    /\ \E out \in StashOutcomes, io_ok \in BOOLEAN :
          LET r == import_asset(cacher, asset_try_from(stash_rpc.genesis), out, io_ok) IN
          /\ StashDone(out)
          /\ Finish(IF r.ok THEN Success ELSE Failure(r.err), r.cache)
    /\ UNCHANGED <<request, accepted, received, replied, cache0, stash_calls>>
    /\ UNCHANGED pvars

RpcTransfer ==
    /\ pc = "process" /\ request.kind = "Transfer"
    /\ LET got == cache_asset(cacher, request.contract_id) IN
       IF ~got.ok
       THEN Finish(Failure(got.err), cacher) /\ UNCHANGED <<stash_state, stash_reply,
                                                            stash_calls, asset>>
       ELSE \E build \in Builds :
              LET r == transfer(got.asset, request.inputs, request.ours,
                                request.theirs, request.change, build) IN
              /\ asset' = asset_after_transfer(got.asset, request.inputs)
              /\ IF ~r.ok /\ r.err = "panic"
                 THEN /\ pc' = "terminal"
                      /\ UNCHANGED <<cacher, reply, stash_rpc, stash_state,
                                     stash_reply, stash_calls>>
                 ELSE IF ~r.ok
                 THEN Finish(Failure(r.err), cacher) /\ UNCHANGED <<stash_state,
                                                                    stash_reply,
                                                                    stash_calls>>
                 ELSE /\ SendStash([kind |-> "Consign",
                                    contract_id |-> request.contract_id,
                                    inputs |-> request.inputs,
                                    transition |-> r.transition])
                      /\ UNCHANGED <<cacher, reply>>
    /\ UNCHANGED <<request, accepted, received, replied, cache0>>
    /\ UNCHANGED <<targs, cvars>>

ConsignReply ==
    /\ pc = "stash_wait" /\ stash_rpc.kind = "Consign"
    /\ \E out \in StashOutcomes :
          LET r == expect_reply(out, {"Transfer"}) IN
          /\ StashDone(out)
          /\ Finish(IF r.ok THEN r.reply ELSE Failure(r.err), cacher)
    /\ UNCHANGED <<request, accepted, received, replied, cache0, stash_calls>>
    /\ UNCHANGED pvars

RpcValidate ==
    /\ pc = "process" /\ request.kind = "Validate"
    /\ SendStash([kind |-> "Validate", consignment |-> request.consignment])
    /\ UNCHANGED <<cacher, reply, request, accepted, received, replied, cache0>>
    /\ UNCHANGED pvars

\* rpc_validate: the reply validate() let through is dropped and Success is
\* returned.
ValidateReply ==
    /\ pc = "stash_wait" /\ stash_rpc.kind = "Validate"
    /\ \E out \in StashOutcomes :
          LET r == expect_reply(out, {"Success", "Failure"}) IN
          /\ StashDone(out)
          /\ Finish(IF r.ok THEN Success ELSE Failure(r.err), cacher)
    /\ UNCHANGED <<request, accepted, received, replied, cache0, stash_calls>>
    /\ UNCHANGED pvars

RpcAccept ==
    /\ pc = "process" /\ request.kind = "Accept"
    /\ SendStash([kind |-> "Merge", consignment |-> request.consignment,
                  reveal_outpoints |-> request.reveal_outpoints])
    /\ UNCHANGED <<cacher, reply, request, accepted, received, replied, cache0>>
    /\ UNCHANGED pvars

AcceptReply ==
    /\ pc = "stash_wait" /\ stash_rpc.kind = "Merge"
    /\ \E out \in StashOutcomes, io_ok \in BOOLEAN :
          LET r == accept(cacher, request, out, io_ok) IN
          /\ StashDone(out)
          /\ Finish(IF r.ok THEN r.reply ELSE Failure(r.err), r.cache)
          /\ accepted' = IF r.ok THEN [accepted EXCEPT !.req = request]
                         ELSE accepted
    /\ UNCHANGED <<request, received, replied, cache0, stash_calls>>
    /\ UNCHANGED pvars

RpcForget ==
    /\ pc = "process" /\ request.kind = "Forget"
    /\ \E fail_at \in 0..Cardinality(DOMAIN cacher) :
          LET r == forget_scan(cacher, cache_assets(cacher), request.outpoint, <<>>,
                               fail_at, 1) IN
          IF ~r.ok
          THEN Finish(Failure(r.err), r.cache) /\ UNCHANGED <<stash_state,
                                                              stash_reply,
                                                              stash_calls>>
          ELSE IF r.removal_list = <<>>
          THEN Finish(Nothing, r.cache) /\ UNCHANGED <<stash_state, stash_reply,
                                                       stash_calls>>
          ELSE /\ SendStash([kind |-> "Forget", removal_list |-> r.removal_list])
               /\ cacher' = r.cache
               /\ UNCHANGED reply
    /\ UNCHANGED <<request, accepted, received, replied, cache0>>
    /\ UNCHANGED pvars

ForgetReply ==
    /\ pc = "stash_wait" /\ stash_rpc.kind = "Forget"
    /\ \E out \in StashOutcomes :
          LET r == expect_reply(out, {"Success", "Failure"}) IN
          /\ StashDone(out)
          /\ Finish(IF r.ok THEN r.reply ELSE Failure(r.err), cacher)
    /\ UNCHANGED <<request, accepted, received, replied, cache0, stash_calls>>
    /\ UNCHANGED pvars

RpcExportAsset ==
    /\ pc = "process" /\ request.kind = "ExportAsset"
    /\ SendStash([kind |-> "ReadGenesis", asset_id |-> request.asset_id])
    /\ UNCHANGED <<cacher, reply, request, accepted, received, replied, cache0>>
    /\ UNCHANGED pvars

ExportAssetReply ==
    /\ pc = "stash_wait" /\ stash_rpc.kind = "ReadGenesis"
    /\ \E out \in StashOutcomes :
          LET r == expect_reply(out, {"Genesis"}) IN
          /\ StashDone(out)
          /\ Finish(IF r.ok THEN r.reply ELSE Failure(r.err), cacher)
    /\ UNCHANGED <<request, accepted, received, replied, cache0, stash_calls>>
    /\ UNCHANGED pvars

\* rpc_sync, rpc_assets, rpc_allocations: reads of the Cache
RpcQuery ==
    /\ pc = "process" /\ request.kind \in {"Sync", "Assets", "Allocations"}
    /\ \E io_ok \in BOOLEAN :
          Finish(IF io_ok THEN [kind |-> request.kind, info |-> ""]
                 ELSE Failure("Cache"), cacher)
    /\ UNCHANGED <<request, accepted, received, replied, cache0, stash_state,
                   stash_reply, stash_calls>>
    /\ UNCHANGED pvars

\* run: reply.encode() and send_raw_message
SendReply ==
    /\ pc = "reply"
    /\ replied' = replied + 1
    /\ pc' = "recv"
    /\ UNCHANGED <<cacher, request, accepted, stash_rpc, reply, received, cache0,
                   stash_state, stash_reply, stash_calls>>
    /\ UNCHANGED pvars

SendReplyFails ==
    /\ pc = "reply"
    /\ pc' = "terminal"
    /\ UNCHANGED <<cacher, request, accepted, stash_rpc, reply, received, replied,
                   cache0, stash_state, stash_reply, stash_calls>>
    /\ UNCHANGED pvars

Next ==
    \/ RegisterSchema \/ RegisterSchemaReply
    \/ RecvRequest \/ RecvFails \/ UnmarshallError
    \/ RpcIssue \/ RpcImportAsset \/ ImportAssetReply
    \/ RpcTransfer \/ ConsignReply
    \/ RpcValidate \/ ValidateReply
    \/ RpcAccept \/ AcceptReply
    \/ RpcForget \/ ForgetReply
    \/ RpcExportAsset \/ ExportAssetReply
    \/ RpcQuery
    \/ SendReply \/ SendReplyFails

Spec == Init /\ [][Next]_vars

-----------------------------------------------------------------------------
(* Claims about Processor::transfer, checked under SpecTransfer *)

TransferCalled == t_result.ok \/ t_result.err # "NotCalled"

Resolved(o) ==
    /\ o \in DOMAIN asset.known_allocations
    /\ Len(asset.known_allocations[o]) > 0
AllResolve == \A k \in 1..Len(inputs) : Resolved(inputs[k])

\* Sum of the amounts of all allocations resolved from the inputs, one term
\* per reference in `inputs`.
RECURSIVE InSumFrom(_)
InSumFrom(k) ==
    IF k > Len(inputs) THEN 0
    ELSE SumSeq(Amounts(asset.known_allocations[inputs[k]])) + InSumFrom(k + 1)
InSum == InSumFrom(1)

\* Sum of the precision-converted ours and theirs amounts.
OutSum ==
    SumSeq([k \in 1..Len(ours) |-> transmutate(ours[k].coins, asset.fractional_bits)])
    + SumSeq([k \in 1..Len(theirs) |-> transmutate(theirs[k].coins, asset.fractional_bits)])

TheirsOut ==
    [k \in 1..Len(theirs) |->
        [seal |-> theirs[k].seal_confidential,
         amount |-> transmutate(theirs[k].coins, asset.fractional_bits)]]

\* C1: whenever the inputs resolve to allocations whose amounts sum to strictly
\* less than the converted ours plus theirs amounts, transfer fails with "Input
\* amount is lower than output amount" and returns no Transition, with or
\* without a change output.
C1_OverspendFails ==
    (TransferCalled /\ AllResolve /\ InSum < OutSum)
        => t_result = Err("Input amount is lower than output amount")

C1_Witness ==
    /\ TransferCalled /\ AllResolve /\ Len(inputs) > 0 /\ InSum < OutSum
    /\ change_outpoint # None
    /\ ~t_result.ok

\* C2: whenever the input sum is strictly greater than the output sum and no
\* change output is supplied, transfer fails with "Excess input with no change"
\* and returns no Transition.
C2_ExcessWithoutChangeFails ==
    (TransferCalled /\ AllResolve /\ InSum > OutSum /\ change_outpoint = None)
        => t_result = Err("Excess input with no change")

C2_Witness ==
    /\ TransferCalled /\ AllResolve /\ InSum > OutSum /\ change_outpoint = None
    /\ Len(ours) = 1 /\ theirs = <<>>
    /\ ~t_result.ok

\* C3: when the input sum exceeds the output sum and a change output is
\* supplied, transfer succeeds and the confidential outputs are the theirs set
\* followed by the single entry (change_output, total_inputs - total_outputs),
\* so that all output amounts sum to the input sum.
C3_ChangeAppended ==
    (TransferCalled /\ AllResolve /\ InSum > OutSum /\ change_outpoint # None)
        => /\ t_result.ok
           /\ t_result.transition.theirs =
                Append(TheirsOut, [seal |-> change_outpoint, amount |-> InSum - OutSum])
           /\ SumSeq(Amounts(t_result.transition.ours))
                + SumSeq(Amounts(t_result.transition.theirs)) = InSum

C3_Witness ==
    /\ TransferCalled /\ AllResolve /\ InSum > OutSum /\ change_outpoint # None
    /\ Len(theirs) = 1 /\ Len(ours) = 1
    /\ t_result.ok /\ Len(t_result.transition.theirs) = 2

\* C4: when every input resolves and the input sum equals the output sum,
\* transfer succeeds and adds no change entry to the confidential outputs, even
\* when a change output was supplied.
C4_ExactNoChange ==
    (TransferCalled /\ AllResolve /\ InSum = OutSum)
        => /\ t_result.ok
           /\ t_result.transition.theirs = TheirsOut

C4_Witness ==
    /\ TransferCalled /\ AllResolve /\ InSum = OutSum /\ InSum > 0
    /\ change_outpoint # None
    /\ t_result.ok /\ Len(t_result.transition.theirs) = Len(theirs)

\* C5: if any input reference has no allocations in the asset (no entry for
\* the output, or an empty list), transfer fails with "Unknown input" whatever
\* the amounts requested.
C5_UnknownInput ==
    (TransferCalled /\ ~AllResolve) => t_result = Err("Unknown input")

C5_Witness ==
    /\ TransferCalled
    /\ \E j, k \in 1..Len(inputs) :
          /\ inputs[j] \notin DOMAIN asset.known_allocations
          /\ inputs[k] \in DOMAIN asset.known_allocations
          /\ asset.known_allocations[inputs[k]] = <<>>
    /\ t_result = Err("Unknown input")

\* The allocations consumed by the transfer: those the asset holds at the
\* referenced outputs.
Consumed ==
    UNION {{asset.known_allocations[inputs[k]][j] :
                j \in 1..Len(asset.known_allocations[inputs[k]])} :
           k \in 1..Len(inputs)}

Occurrences(s, x) == Cardinality({k \in 1..Len(s) : s[k] = x})

\* C6: for every successful transfer the ancestor map references exactly the
\* consumed allocations: each consumed (node_id, index) appears exactly once
\* under its node_id and the Assets type, and nothing else appears.
C6_AncestorsExact ==
    t_result.ok =>
        LET anc == t_result.transition.ancestors IN
        /\ \A al \in Consumed :
              /\ al.node_id \in DOMAIN anc
              /\ Occurrences(anc[al.node_id].Assets, al.index) = 1
        /\ \A n \in DOMAIN anc : \A k \in 1..Len(anc[n].Assets) :
              \E al \in Consumed : al.node_id = n /\ al.index = anc[n].Assets[k]

\* The same, for transfers whose inputs name every output at most once.
AncestorsExactForDistinctInputs ==
    (\A j, k \in 1..Len(inputs) : inputs[j] = inputs[k] => j = k) => C6_AncestorsExact

-----------------------------------------------------------------------------
(* Claims about Processor::issue, checked under SpecIssue *)

IssueCalled == i_result.ok \/ i_result.err # "NotCalled"

IssuedSum ==
    SumSeq([k \in 1..Len(allocations) |-> transmutate(allocations[k].coins, precision)])

\* C7: issue returns an (Asset, Genesis) pair only when issued_supply <=
\* total_supply; with MultipleIssues whose transmuted max_supply is below the
\* issued supply it fails with a schema violation and produces no Genesis.
C7_SupplyInvariant ==
    /\ (IssueCalled /\ i_result.ok)
          => /\ i_result.asset.supply.issued <= i_result.asset.supply.total
             /\ i_result.genesis.metadata.IssuedSupply = IssuedSum
             /\ i_result.genesis.metadata.IssuedSupply
                    <= i_result.genesis.metadata.TotalSupply
    /\ (IssueCalled /\ issue_structure.kind = "MultipleIssues"
            /\ transmutate(issue_structure.max_supply, precision) < IssuedSum)
          => i_result = Err("Schema")

C7_Witness ==
    /\ IssueCalled /\ issue_structure.kind = "MultipleIssues"
    /\ transmutate(issue_structure.max_supply, precision) < IssuedSum
    /\ ~i_result.ok

-----------------------------------------------------------------------------
(* Claims about the Runtime, checked under Spec *)

Handling == pc \in {"process", "stash_wait", "reply"}

\* C8: every client request received yields exactly one reply, sent before the
\* next request is received: no request has two replies, the Runtime is back
\* at receiving only with every received request replied to, and every way out
\* of a handler (success, failure, bytes that do not unmarshall) carries a
\* reply to send.
C8_OneReplyPerRequest ==
    /\ replied <= received
    /\ received - replied <= 1
    /\ pc = "recv" => replied = received
    /\ Handling => replied = received - 1
    /\ pc = "reply" => reply.kind # "None"

C8_Witness ==
    /\ pc = "recv" /\ received >= 2 /\ replied = received
    /\ request.kind = "Malformed" /\ reply.kind = "Failure"

\* C9: in the handlers that call Stash and mutate the Cache, the Stash round
\* trip of the request has completed, successfully, before the Cache differs
\* from what it was when the request was received.
C9_StashBeforeCacheMutation ==
    cacher # cache0 => stash_state = "success"

\* The same ordering, for the handlers other than Forget.
StashBeforeCacheMutationExceptForget ==
    (cacher # cache0 /\ request.kind # "Forget") => stash_state = "success"

ReqResolved(a, o) ==
    /\ o \in DOMAIN a.known_allocations
    /\ Len(a.known_allocations[o]) > 0

RECURSIVE ReqInSum(_, _)
ReqInSum(a, ins) ==
    IF ins = <<>> THEN 0
    ELSE SumSeq(Amounts(a.known_allocations[Head(ins)])) + ReqInSum(a, Tail(ins))

ReqOutSum(a, os, ts) ==
    SumSeq([k \in 1..Len(os) |-> transmutate(os[k].coins, a.fractional_bits)])
    + SumSeq([k \in 1..Len(ts) |-> transmutate(ts[k].coins, a.fractional_bits)])

\* The request breaks the supply rule of issue.
IssueRejected ==
    /\ request.kind = "Issue"
    /\ request.structure.kind = "MultipleIssues"
    /\ transmutate(request.structure.max_supply, request.precision)
         < SumSeq([k \in 1..Len(request.allocation) |->
                      transmutate(request.allocation[k].coins, request.precision)])

UnknownInputRejected ==
    /\ request.kind = "Transfer"
    /\ request.contract_id \in DOMAIN cache0
    /\ \E k \in 1..Len(request.inputs) :
          ~ReqResolved(cache0[request.contract_id], request.inputs[k])

OverspendRejected ==
    /\ request.kind = "Transfer"
    /\ request.contract_id \in DOMAIN cache0
    /\ ~UnknownInputRejected
    /\ ReqInSum(cache0[request.contract_id], request.inputs)
         < ReqOutSum(cache0[request.contract_id], request.ours, request.theirs)

MissingChangeRejected ==
    /\ request.kind = "Transfer"
    /\ request.contract_id \in DOMAIN cache0
    /\ ~UnknownInputRejected
    /\ ReqInSum(cache0[request.contract_id], request.inputs)
         > ReqOutSum(cache0[request.contract_id], request.ours, request.theirs)
    /\ request.change = None

ValidationRejected ==
    IssueRejected \/ UnknownInputRejected \/ OverspendRejected \/ MissingChangeRejected

\* C10: a request rejected by a schema/validation error (total supply below
\* issued supply, unknown input, overspend, missing change) leaves the Cache
\* as it was before the request, sends nothing to Stash and is answered with a
\* failure reply.
C10_RejectionLeavesCache ==
    ValidationRejected =>
        /\ cacher = cache0
        /\ stash_calls = 0
        /\ pc # "process" => reply.kind = "Failure"

C10_Witness ==
    /\ MissingChangeRejected
    /\ pc = "recv" /\ replied = received
    /\ reply.kind = "Failure" /\ cacher = cache0

-----------------------------------------------------------------------------
(* Accept and Forget against the Cache *)

\* The handler of `request` has ended and its result is (or was) the reply.
Ended == pc \in {"reply", "recv", "terminal"} /\ reply.kind # "None"

HeldAt(cache, o) ==
    {id \in DOMAIN cache :
        LET found == asset_allocations(cache[id], o) IN
        found.some /\ found.v # <<>>}

\* C11: Accept and Forget are all-or-nothing on the Cache: a handler that
\* ends with an error (Cache lookup or storage failure, broken consignment,
\* Stash failure) has changed no Asset of the Cache; a Forget that succeeds
\* has emptied the outpoint in every Asset, an Accept that succeeds has its
\* Asset in the Cache.
C11_AcceptForgetAllOrNothing ==
    (Ended /\ request.kind \in {"Accept", "Forget"}) =>
        /\ reply.kind = "Failure" => cacher = cache0
        /\ (request.kind = "Forget" /\ reply.kind = "Success") =>
               HeldAt(cacher, request.outpoint) = {}
        /\ (request.kind = "Accept" /\ reply.kind = "Success") =>
               request.consignment.genesis.contract_id \in DOMAIN cacher

\* The same for Accept alone.
AcceptAllOrNothing ==
    (Ended /\ request.kind = "Accept" /\ reply.kind = "Failure") => cacher = cache0

\* An allocation is the triple (outpoint, node_id, index); it is duplicated
\* when the list kept for its outpoint holds it at two positions.
Duplicated(a) ==
    \E o \in DOMAIN a.known_allocations :
       LET l == a.known_allocations[o] IN
       \E i, j \in 1..Len(l) :
          i < j /\ l[i].node_id = l[j].node_id /\ l[i].index = l[j].index

\* C12: Accept is idempotent: when the consignment and reveal set that were
\* accepted by the previous request are accepted again, with Stash replying
\* Success both times, the Cache is what the first Accept left and no
\* allocation of the Asset is duplicated.
C12_AcceptIdempotent ==
    (Ended /\ request.kind = "Accept" /\ accepted.again /\ reply.kind = "Success") =>
        /\ cacher = cache0
        /\ ~Duplicated(cacher[request.consignment.genesis.contract_id])

\* C13: a Forget for an outpoint at which no cached Asset holds an allocation
\* is answered Nothing, sends nothing to Stash and leaves every allocation
\* as it was, whatever the number of cached Assets and whether or not they
\* have an entry for the outpoint.
C13_ForgetNothingHeld ==
    (Ended /\ request.kind = "Forget" /\ HeldAt(cache0, request.outpoint) = {}) =>
        /\ reply = Nothing
        /\ stash_calls = 0
        /\ cacher = cache0

\* The same when every cached Asset has an entry for the outpoint and the
\* storage takes every write.
ForgetNothingHeldWithEntries ==
    (/\ Ended /\ request.kind = "Forget"
     /\ HeldAt(cache0, request.outpoint) = {}
     /\ \A id \in DOMAIN cache0 : asset_allocations(cache0[id], request.outpoint).some
     /\ reply.info # "Cache") =>
        /\ reply = Nothing
        /\ stash_calls = 0
        /\ cacher = cache0

-----------------------------------------------------------------------------
(* The serving loop *)

Serving == pc \in {"recv", "process", "stash_wait", "reply"}
StashFailed == stash_reply.kind \in {"Failure", "TransportError"}

TerminalFromTransport ==
    (Serving /\ pc' = "terminal") => (pc = "recv" \/ pc = "reply")
HandlerStaysServing ==
    (pc = "process" \/ pc = "stash_wait") => (pc' = "stash_wait" \/ pc' = "reply")

\* C14: the serving loop ends only on the client transport: the Runtime
\* becomes Terminal from Serving only where it receives a request or encodes
\* and sends a reply, never out of a handler. A request that does not
\* unmarshall and a Stash call that fails end in a failure reply.
C14_LoopEndsOnlyOnClientTransport ==
    /\ [][TerminalFromTransport]_vars
    /\ [][HandlerStaysServing]_vars
    /\ []((Ended /\ request.kind = "Malformed") => reply.kind = "Failure")
    /\ []((Ended /\ StashFailed) => reply.kind = "Failure")

\* A Stash call failed, the failure went to the client and the Runtime waits
\* for the next request.
C14_Witness ==
    /\ pc = "recv" /\ received > 0 /\ replied = received
    /\ StashFailed /\ reply.kind = "Failure"

SchemaSentAtStartOnly ==
    /\ stash_rpc'.kind = "AddSchema" => (stash_rpc.kind = "AddSchema" \/ pc = "register")
    /\ pc' = "register" => pc = "register"
RegisteredOnSuccessOnly ==
    (pc = "register_wait" /\ pc' # "register_wait") =>
        \/ pc' = "recv" /\ stash_reply'.kind = "Success"
        \/ pc' = "terminal" /\ stash_reply'.kind # "Success"
TerminalIsFinal ==
    pc = "terminal" => (pc' = "terminal" /\ received' = received)

\* C15: the schema goes to Stash once, at startup and before anything else;
\* the Runtime enters Serving only on the Stash reply Success; on any other
\* reply or a transport error it becomes Terminal, where it stays without
\* ever having received a client request.
C15_SchemaOnceBeforeServing ==
    /\ [][SchemaSentAtStartOnly]_vars
    /\ [][RegisteredOnSuccessOnly]_vars
    /\ [][TerminalIsFinal]_vars
    /\ []((pc = "register" \/ pc = "register_wait") =>
            (received = 0 /\ request = NoRequest))

\* Stash answered the schema with a reply of another shape: Terminal, no
\* request received.
C15_Witness ==
    /\ pc = "terminal" /\ received = 0 /\ request = NoRequest
    /\ stash_reply.kind = "Genesis"

-----------------------------------------------------------------------------
(* Stash outcomes as the client sees them *)

\* C16: for Validate the reply to the client is the Stash outcome unchanged:
\* Success when Stash replied Success, Failure with the reason Stash gave
\* when Stash replied Failure(reason).
C16_ValidatePassthrough ==
    (Ended /\ request.kind = "Validate"
           /\ (stash_reply.kind = "Success" \/ stash_reply.kind = "Failure")) =>
        reply = stash_reply

\* The Success half alone.
ValidateSuccessPassthrough ==
    (Ended /\ request.kind = "Validate" /\ stash_reply.kind = "Success") =>
        reply = Success

-----------------------------------------------------------------------------
(* One request at a time *)

StashPending == stash_rpc # NoStash \/ stash_state = "sent"

ReceiveWhenIdle ==
    received' # received => (pc = "recv" /\ replied = received /\ ~StashPending)
ReplyAfterStash ==
    replied' # replied => (pc = "reply" /\ received = replied + 1 /\ ~StashPending)
CacheWithinRequest ==
    cacher' # cacher =>
        ((pc = "process" \/ pc = "stash_wait") /\ received = replied + 1
         /\ request' = request)

\* C17: requests are strictly serialized: a request is received only when
\* every earlier one has its reply and nothing is pending at Stash; a reply
\* is sent only when the Stash request of its request has been answered; the
\* Cache changes only inside the handling of the one request in progress.
C17_StrictlySerialized ==
    /\ [][ReceiveWhenIdle]_vars
    /\ [][ReplyAfterStash]_vars
    /\ [][CacheWithinRequest]_vars
    /\ [](StashPending => (pc = "stash_wait" \/ pc = "register_wait"))
    /\ [](received = replied \/ received = replied + 1)

\* The second request has had its Stash round trip and its reply is ready.
C17_Witness ==
    /\ pc = "reply" /\ received = 2 /\ replied = 1
    /\ stash_calls = 1 /\ stash_reply.kind # "None" /\ ~StashPending

-----------------------------------------------------------------------------
(* No retry *)

\* The reply shapes the handler of each request takes from Stash.
ExpectedOf(kind) ==
    CASE kind = "Transfer" -> {"Transfer"}
      [] kind = "ExportAsset" -> {"Genesis"}
      [] OTHER -> {"Success"}

\* The Stash call of `request` failed: Failure, a transport error or a reply
\* of another shape.
StashCallFailed ==
    /\ stash_reply.kind # "None" /\ request.kind # "None"
    /\ (StashFailed \/ stash_reply.kind \notin ExpectedOf(request.kind))

NoSecondStashRequest ==
    stash_calls' > stash_calls => (stash_calls = 0 /\ stash_reply.kind = "None")

\* C18: no retry: a client request causes at most one request to Stash, and
\* when that call fails (Failure, unexpected shape, transport error) the
\* request is answered with a failure reply and nothing more goes to Stash.
C18_NoRetry ==
    /\ [](stash_calls <= 1)
    /\ [][NoSecondStashRequest]_vars
    /\ []((Ended /\ StashCallFailed) => (reply.kind = "Failure" /\ stash_calls = 1))

\* Stash answered ReadGenesis with Success, a shape export_asset does not
\* take; the client has its failure reply after one Stash request.
C18_Witness ==
    /\ pc = "recv" /\ replied = received /\ request.kind = "ExportAsset"
    /\ stash_reply.kind = "Success" /\ stash_calls = 1
    /\ reply = Failure("UnexpectedReply")

-----------------------------------------------------------------------------
(* Coin descriptors (data/outcoins.rs): text as a sequence of characters *)

\* A Txid or an OutpointHash is written as 64 hex characters.
HexLen == 64

Digits == <<"0", "1", "2", "3", "4", "5", "6", "7", "8", "9">>
DigitChars == {Digits[i] : i \in 1..10}
HexChars == DigitChars \cup {"a", "b", "c", "d", "e", "f"}
\* [\d.,_']
CoinsClass == DigitChars \cup {".", ",", "_", "'"}

ParseError == [ok |-> FALSE, err |-> "ParseError"]
Parsed(x) == [ok |-> TRUE, value |-> x]

DigitVal(c) == CHOOSE d \in 0..9 : Digits[d + 1] = c
AllIn(str, class) == \A i \in 1..Len(str) : str[i] \in class
\* position of the first c in str, 0 when there is none
IndexOf(str, c) ==
    IF \E i \in 1..Len(str) : str[i] = c
    THEN CHOOSE i \in 1..Len(str) : str[i] = c /\ \A j \in 1..(i - 1) : str[j] # c
    ELSE 0
CountOf(str, c) == Cardinality({i \in 1..Len(str) : str[i] = c})

\* u32::to_string and str::parse::<u32>
RECURSIVE u32_to_string(_)
u32_to_string(n) ==
    IF n < 10 THEN <<Digits[n + 1]>>
    ELSE u32_to_string(n \div 10) \o <<Digits[(n % 10) + 1]>>

RECURSIVE digits_value(_)
digits_value(str) ==
    IF str = <<>> THEN 0
    ELSE 10 * digits_value(SubSeq(str, 1, Len(str) - 1)) + DigitVal(str[Len(str)])

parse_u32(str) ==
    IF str # <<>> /\ AllIn(str, DigitChars)
    THEN [ok |-> TRUE, v |-> digits_value(str)]
    ELSE ParseError

\* Display of the amount (AccountingValue): the integer part, and the
\* fraction when there is one. Amounts are kept in tenths, as DisplayCoins.
fmt_coins(c) ==
    u32_to_string(c \div 10)
        \o (IF c % 10 = 0 THEN <<>> ELSE <<".", Digits[(c % 10) + 1]>>)

\* str::parse::<AccountingValue>: digits with at most one decimal point;
\* a grouping separator is no part of a number. More than one fractional
\* digit has no value in tenths.
parse_coins(str) ==
    LET dot == IndexOf(str, ".")
        int == IF dot = 0 THEN str ELSE SubSeq(str, 1, dot - 1)
        frac == IF dot = 0 THEN <<>> ELSE SubSeq(str, dot + 1, Len(str)) IN
    IF /\ AllIn(int, DigitChars) /\ AllIn(frac, DigitChars)
       /\ (int # <<>> \/ frac # <<>>) /\ Len(frac) <= 1
    THEN [ok |-> TRUE, v |-> 10 * digits_value(int) + digits_value(frac)]
    ELSE ParseError

\* str::to_ascii_lowercase
Lower(c) ==
    CASE c = "A" -> "a" [] c = "B" -> "b" [] c = "C" -> "c"
      [] c = "D" -> "d" [] c = "E" -> "e" [] c = "F" -> "f"
      [] OTHER -> c
to_ascii_lowercase(str) == [i \in 1..Len(str) |-> Lower(str[i])]

\* Txid::from_hex, OutpointHash::from_hex
from_hex(str) ==
    IF Len(str) = HexLen /\ AllIn(str, HexChars)
    THEN [ok |-> TRUE, v |-> str]
    ELSE ParseError

NoTxid == [some |-> FALSE]
SomeTxid(t) == [some |-> TRUE, v |-> t]

\* impl Display for SealCoins
seal_coins_fmt(x) ==
    fmt_coins(x.coins) \o <<"@">>
        \o (IF x.txid.some THEN x.txid.v \o <<":">> ELSE <<>>)
        \o u32_to_string(x.vout)

\* The regular expression of SealCoins::from_str,
\*   ^(?P<coins>[\d.,_']+)@((?P<txid>[a-f\d]{64}):)(?P<vout>\d+)$
\* The coins class has no '@', so coins is what stands before the first '@';
\* the txid group and its ':' are not optional.
seal_coins_captures(str) ==
    LET at == IndexOf(str, "@")
        coins == SubSeq(str, 1, at - 1)
        rest == SubSeq(str, at + 1, Len(str)) IN
    IF /\ at > 1 /\ AllIn(coins, CoinsClass)
       /\ Len(rest) > HexLen + 1
       /\ AllIn(SubSeq(rest, 1, HexLen), HexChars)
       /\ rest[HexLen + 1] = ":"
       /\ AllIn(SubSeq(rest, HexLen + 2, Len(rest)), DigitChars)
    THEN [matched |-> TRUE, coins |-> coins,
          txid |-> SomeTxid(SubSeq(rest, 1, HexLen)),
          vout |-> SubSeq(rest, HexLen + 2, Len(rest))]
    ELSE [matched |-> FALSE]

\* impl FromStr for SealCoins
seal_coins_from_str(str) ==
    LET m == seal_coins_captures(to_ascii_lowercase(str)) IN
    IF ~m.matched THEN ParseError
    ELSE LET coins == parse_coins(m.coins)
             vout == parse_u32(m.vout) IN
         IF m.txid.some
         THEN LET txid == from_hex(m.txid.v) IN
              IF coins.ok /\ vout.ok /\ txid.ok
              THEN Parsed([type |-> "SealCoins", coins |-> coins.v, vout |-> vout.v,
                           txid |-> SomeTxid(txid.v)])
              ELSE ParseError
         ELSE IF coins.ok /\ vout.ok
              THEN Parsed([type |-> "SealCoins", coins |-> coins.v, vout |-> vout.v,
                           txid |-> NoTxid])
              ELSE ParseError

\* Display and FromStr of bitcoin::OutPoint: "txid:vout", the vout without
\* leading zeros.
outpoint_fmt(o) == o.txid \o <<":">> \o u32_to_string(o.vout)
outpoint_from_str(str) ==
    LET colon == IndexOf(str, ":")
        txid == from_hex(SubSeq(str, 1, colon - 1))
        digits == SubSeq(str, colon + 1, Len(str))
        vout == parse_u32(digits) IN
    IF colon > 0 /\ txid.ok /\ vout.ok /\ (Len(digits) = 1 \/ digits[1] # "0")
    THEN [ok |-> TRUE, v |-> [txid |-> txid.v, vout |-> vout.v]]
    ELSE ParseError

\* #[display("{coins}@{outpoint}")] of OutpointCoins
outpoint_coins_fmt(x) == fmt_coins(x.coins) \o <<"@">> \o outpoint_fmt(x.outpoint)

\* impl FromStr for OutpointCoins: s.split('@') must give two parts
outpoint_coins_from_str(str) ==
    IF CountOf(str, "@") # 1 THEN ParseError
    ELSE LET at == IndexOf(str, "@")
             coins == parse_coins(SubSeq(str, 1, at - 1))
             outpoint == outpoint_from_str(SubSeq(str, at + 1, Len(str))) IN
         IF coins.ok /\ outpoint.ok
         THEN Parsed([type |-> "OutpointCoins", coins |-> coins.v,
                      outpoint |-> outpoint.v])
         ELSE ParseError

\* #[display("{coins}@{seal_confidential}")] of ConsealCoins
conseal_coins_fmt(x) == fmt_coins(x.coins) \o <<"@">> \o x.seal_confidential

\* impl FromStr for ConsealCoins, with the regular expression
\*   ^(?P<coins>[\d.,_']+)@((?P<seal>[a-f\d]{64}))$
conseal_coins_captures(str) ==
    LET at == IndexOf(str, "@")
        coins == SubSeq(str, 1, at - 1)
        rest == SubSeq(str, at + 1, Len(str)) IN
    IF at > 1 /\ AllIn(coins, CoinsClass) /\ Len(rest) = HexLen /\ AllIn(rest, HexChars)
    THEN [matched |-> TRUE, coins |-> coins, seal |-> rest]
    ELSE [matched |-> FALSE]

conseal_coins_from_str(str) ==
    LET m == conseal_coins_captures(to_ascii_lowercase(str)) IN
    IF ~m.matched THEN ParseError
    ELSE LET coins == parse_coins(m.coins)
             seal == from_hex(m.seal) IN
         IF coins.ok /\ seal.ok
         THEN Parsed([type |-> "ConsealCoins", coins |-> coins.v,
                      seal_confidential |-> seal.v])
         ELSE ParseError

\* Display and FromStr of a descriptor, by its type
coins_fmt(x) ==
    CASE x.type = "SealCoins" -> seal_coins_fmt(x)
      [] x.type = "OutpointCoins" -> outpoint_coins_fmt(x)
      [] x.type = "ConsealCoins" -> conseal_coins_fmt(x)
coins_from_str(type, str) ==
    CASE type = "SealCoins" -> seal_coins_from_str(str)
      [] type = "OutpointCoins" -> outpoint_coins_from_str(str)
      [] type = "ConsealCoins" -> conseal_coins_from_str(str)

\* #[derive(PartialEq)] of OutpointCoins: field by field
outpoint_coins_eq(a, b) == a.coins = b.coins /\ a.outpoint = b.outpoint

\* Ord of bitcoin::OutPoint: the txid bytes, then the vout. The bytes of a
\* txid are kept in the reverse of the order its hex text shows them.
HexVal(c) == CHOOSE d \in 0..15 : (Digits \o <<"a", "b", "c", "d", "e", "f">>)[d + 1] = c
txid_byte(t, k) ==
    LET i == HexLen - 2 * k + 1 IN 16 * HexVal(t[i]) + HexVal(t[i + 1])
RECURSIVE bytes_cmp(_, _, _)
bytes_cmp(t, u, k) ==
    IF k > HexLen \div 2 THEN "Equal"
    ELSE IF txid_byte(t, k) < txid_byte(u, k) THEN "Less"
    ELSE IF txid_byte(t, k) > txid_byte(u, k) THEN "Greater"
    ELSE bytes_cmp(t, u, k + 1)
outpoint_cmp(o, q) ==
    LET c == bytes_cmp(o.txid, q.txid, 1) IN
    IF c # "Equal" THEN c
    ELSE IF o.vout < q.vout THEN "Less"
    ELSE IF o.vout > q.vout THEN "Greater"
    ELSE "Equal"

\* impl Ord for OutpointCoins: self.outpoint.cmp(&other.outpoint)
outpoint_coins_cmp(a, b) == outpoint_cmp(a.outpoint, b.outpoint)

\* impl Hash for OutpointCoins: what is fed to the Hasher
outpoint_coins_hash(a) == a.outpoint

-----------------------------------------------------------------------------
(* Specification of the coin descriptors over a bounded set of values *)

\* Amounts in tenths: 0, 0.5, 1, 10.5 and 100
CoinAmounts == {0, 5, 10, 105, 1000}
Vouts == {0, 2, 10}
Hex64(pattern) == [i \in 1..HexLen |-> pattern[((i - 1) % Len(pattern)) + 1]]
Txids == {Hex64(<<"a", "b", "c", "1">>), Hex64(<<"0", "f">>)}

SealCoinsSet ==
    [type : {"SealCoins"}, coins : CoinAmounts, vout : Vouts,
     txid : {NoTxid} \cup {SomeTxid(t) : t \in Txids}]
OutpointCoinsSet ==
    [type : {"OutpointCoins"}, coins : CoinAmounts,
     outpoint : [txid : Txids, vout : Vouts]]
ConsealCoinsSet ==
    [type : {"ConsealCoins"}, coins : CoinAmounts, seal_confidential : Txids]

NotCompared == [done |-> FALSE]

InitCoins ==
    /\ c_value \in SealCoinsSet \cup OutpointCoinsSet \cup ConsealCoinsSet
    /\ c_other \in IF c_value.type = "OutpointCoins"
                   THEN {b \in OutpointCoinsSet :
                            b.coins \in {c_value.coins, 10}
                            /\ b.outpoint.vout \in {c_value.outpoint.vout, 2}}
                   ELSE {c_value}
    /\ c_text = <<>>
    /\ c_parsed = NotCalled
    /\ c_cmp = NotCompared
    /\ ProcessorIdle
    /\ RuntimeIdle

\* x.to_string()
Format ==
    /\ c_text = <<>>
    /\ c_text' = coins_fmt(c_value)
    /\ UNCHANGED <<c_value, c_other, c_parsed, c_cmp>>
    /\ UNCHANGED <<tvars, rvars>>

\* text.parse()
Parse ==
    /\ c_text # <<>> /\ c_parsed = NotCalled
    /\ c_parsed' = coins_from_str(c_value.type, c_text)
    /\ UNCHANGED <<c_value, c_other, c_text, c_cmp>>
    /\ UNCHANGED <<tvars, rvars>>

\* a == b, a.cmp(&b), and the two hashes
Compare ==
    /\ c_value.type = "OutpointCoins" /\ ~c_cmp.done
    /\ c_cmp' = [done |-> TRUE,
                 eq |-> outpoint_coins_eq(c_value, c_other),
                 cmp |-> outpoint_coins_cmp(c_value, c_other),
                 hash |-> outpoint_coins_hash(c_value),
                 hash_other |-> outpoint_coins_hash(c_other)]
    /\ UNCHANGED <<c_value, c_other, c_text, c_parsed>>
    /\ UNCHANGED <<tvars, rvars>>

NextCoins == Format \/ Parse \/ Compare

SpecCoins == InitCoins /\ [][NextCoins]_vars

-----------------------------------------------------------------------------
(* Coin descriptors: round trip and identity *)

ParseCalled == c_parsed.ok \/ c_parsed.err # "NotCalled"

\* C19: formatting is the exact inverse of parsing: for every SealCoins
\* (with a txid and without one), OutpointCoins and ConsealCoins value x,
\* parsing the text x is formatted to succeeds and gives x back.
C19_FormatParseRoundTrip ==
    ParseCalled => (c_parsed.ok /\ c_parsed.value = c_value)

\* The same for every value but a SealCoins without txid.
RoundTripWithTxid ==
    (ParseCalled /\ ~(c_value.type = "SealCoins" /\ ~c_value.txid.some)) =>
        (c_parsed.ok /\ c_parsed.value = c_value)

\* C20: the identity of an OutpointCoins is its outpoint alone: two values
\* with the same outpoint are equal under ==, compare Equal and hash alike,
\* whatever their amounts; ==, cmp and the hash agree for every pair.
C20_IdentityByOutpoint ==
    c_cmp.done =>
        /\ c_value.outpoint = c_other.outpoint =>
               (c_cmp.eq /\ c_cmp.cmp = "Equal" /\ c_cmp.hash = c_cmp.hash_other)
        /\ c_cmp.eq <=> (c_cmp.cmp = "Equal")
        /\ c_cmp.eq => c_cmp.hash = c_cmp.hash_other

\* cmp and the hash do go by the outpoint alone.
OrdAndHashByOutpoint ==
    c_cmp.done =>
        /\ (c_cmp.cmp = "Equal") <=> (c_value.outpoint = c_other.outpoint)
        /\ (c_cmp.hash = c_cmp.hash_other) <=> (c_value.outpoint = c_other.outpoint)

-----------------------------------------------------------------------------
(* Who writes the Cache *)

CacheWriters == {"Issue", "ImportAsset", "Accept", "Forget"}
CacheReaders == {"Transfer", "Validate", "ExportAsset", "Sync", "Assets", "Allocations"}

CacheWrittenByWriters == cacher' # cacher => request.kind \in CacheWriters

\* Processor::transfer has been called on the Asset of `request`
TransferRan ==
    /\ request.kind = "Transfer" /\ pc # "process"
    /\ request.contract_id \in DOMAIN cache0

\* C21: the Cache is written only while an Issue, ImportAsset, Accept or
\* Forget is handled; Transfer, Validate, ExportAsset, Sync, Assets and
\* Allocations end, whatever their outcome, with the Cache they found; and
\* the Asset Processor::transfer borrowed is after the call what it was.
C21_CacheFrame ==
    /\ [][CacheWrittenByWriters]_vars
    /\ []((Ended /\ request.kind \in CacheReaders) => cacher = cache0)
    /\ [](TransferRan => asset = cache0[request.contract_id])

\* A Transfer went through Processor::transfer and Stash and has its
\* consignment reply; the Cache holds assets.
C21_Witness ==
    /\ Ended /\ TransferRan /\ reply.kind = "Transfer"
    /\ request.inputs = <<"o1", "o2">>
    /\ cacher = cache0

-----------------------------------------------------------------------------
(* Single issue *)

\* C22: with SingleIssue, issue succeeds with total_supply equal to
\* issued_supply, the sum over the allocations of the display amount
\* converted at the precision; one allocation of 1000 at precision 2 gives
\* issued and total supply 100000.
C22_SingleIssueSupply ==
    (IssueCalled /\ issue_structure.kind = "SingleIssue") =>
        /\ i_result.ok
        /\ i_result.genesis.metadata.IssuedSupply = IssuedSum
        /\ i_result.genesis.metadata.TotalSupply = IssuedSum
        /\ i_result.asset.supply.issued = IssuedSum
        /\ i_result.asset.supply.total = IssuedSum
        /\ (Len(allocations) = 1 /\ allocations[1].coins = 10000 /\ precision = 2) =>
               i_result.genesis.metadata.TotalSupply = 100000

\* Two allocations, of 1000 and of 1.5 coins, issued at precision 2.
C22_Witness ==
    /\ IssueCalled /\ issue_structure.kind = "SingleIssue"
    /\ Len(allocations) = 2 /\ precision = 2
    /\ allocations[1].coins = 10000 /\ allocations[2].coins = 15
    /\ i_result.ok /\ i_result.genesis.metadata.TotalSupply = 100150

-----------------------------------------------------------------------------
(* What an accepted consignment adds *)

AcceptSucceeded ==
    /\ Ended /\ request.kind = "Accept"
    /\ stash_reply.kind = "Success" /\ reply.kind = "Success"

AcceptedId == request.consignment.genesis.contract_id

ListAt(a, o) ==
    IF o \in DOMAIN a.known_allocations THEN a.known_allocations[o] ELSE <<>>
Times(list, al) == Cardinality({k \in 1..Len(list) : list[k] = al})
Members(list) == {list[k] : k \in 1..Len(list)}

\* The Asset the Accept starts from
AcceptBase ==
    IF AcceptedId \in DOMAIN cache0 THEN cache0[AcceptedId]
    ELSE asset_try_from(request.consignment.genesis)

\* The assignments of the consignment's transitions, as (transition, position)
AssignmentsOf(trs) ==
    UNION {{<<t, k>> : k \in 1..Len(trs[t].assets)} : t \in 1..Len(trs)}
AllocationOf(trs, p) ==
    [node_id |-> trs[p[1]].node_id, index |-> p[2] - 1,
     amount |-> trs[p[1]].assets[p[2]].amount]
\* those whose confidential seal is the conceal of the revealed output o
MatchedAt(trs, reveal, o) ==
    {p \in AssignmentsOf(trs) :
        /\ \E j \in 1..Len(reveal) : reveal[j] = o
        /\ trs[p[1]].assets[p[2]].seal = conceal(o)}

\* C23: after an Accept whose Merge and handler succeeded the Asset in the
\* Cache has, at every output and for every allocation, as many copies as
\* its base had plus one for each assignment of the consignment whose
\* confidential seal is the conceal of that output, if revealed, the
\* allocation being (transition node_id, position of the assignment, amount);
\* an assignment matching no revealed output adds nothing.
C23_AcceptAddsMatched ==
    AcceptSucceeded =>
        /\ AcceptedId \in DOMAIN cacher
        /\ LET trs == request.consignment.state_transitions
               reveal == request.reveal_outpoints
               new == cacher[AcceptedId] IN
           \A o \in OutPoints :
              LET added == MatchedAt(trs, reveal, o) IN
              \A al \in Members(ListAt(new, o)) \cup Members(ListAt(AcceptBase, o))
                         \cup {AllocationOf(trs, p) : p \in added} :
                 Times(ListAt(new, o), al)
                    = Times(ListAt(AcceptBase, o), al)
                      + Cardinality({p \in added : AllocationOf(trs, p) = al})

\* Only o1 is revealed: the assignment to conceal(o1) is recorded, the one
\* to conceal(o2) is not.
C23_Witness ==
    /\ AcceptSucceeded /\ request.reveal_outpoints = <<"o1">>
    /\ cache0 = [id \in {} |-> 0]
    /\ Len(request.consignment.state_transitions) = 2
    /\ Len(ListAt(cacher[AcceptedId], "o1")) = 2
    /\ ListAt(cacher[AcceptedId], "o2") = <<>>

MatchedCount(o) ==
    Cardinality(MatchedAt(request.consignment.state_transitions,
                          request.reveal_outpoints, o))

\* The allocations the genesis itself assigns at output o
GenesisAt(genesis, o) ==
    {k \in 1..Len(genesis.assignments.Assets) : genesis.assignments.Assets[k].seal = o}

\* C24: after a successful Accept whose genesis names a contract absent
\* from the Cache, the Cache holds the Asset of that genesis (its id,
\* precision and supply) with the genesis allocations followed by the
\* accepted ones; when the Asset was cached, the cached Asset is the base:
\* its supply and precision stay and its allocations are followed by the
\* accepted ones.
C24_AcceptBase ==
    AcceptSucceeded =>
        /\ AcceptedId \in DOMAIN cacher
        /\ LET genesis == request.consignment.genesis
               new == cacher[AcceptedId] IN
           IF AcceptedId \notin DOMAIN cache0
           THEN /\ new.id = genesis.contract_id
                /\ new.fractional_bits = genesis.metadata.Precision
                /\ new.supply = [issued |-> genesis.metadata.IssuedSupply,
                                 total |-> genesis.metadata.TotalSupply]
                /\ \A o \in OutPoints :
                      /\ Len(ListAt(new, o))
                            = Cardinality(GenesisAt(genesis, o)) + MatchedCount(o)
                      /\ \A k \in GenesisAt(genesis, o) :
                            \E i \in 1..Cardinality(GenesisAt(genesis, o)) :
                               ListAt(new, o)[i]
                                 = [node_id |-> genesis.contract_id, index |-> k - 1,
                                    amount |-> genesis.assignments.Assets[k].amount]
           ELSE LET old == cache0[AcceptedId] IN
                /\ new.id = old.id
                /\ new.fractional_bits = old.fractional_bits
                /\ new.supply = old.supply
                /\ \A o \in OutPoints :
                      /\ Len(ListAt(new, o)) = Len(ListAt(old, o)) + MatchedCount(o)
                      /\ SubSeq(ListAt(new, o), 1, Len(ListAt(old, o))) = ListAt(old, o)

\* Contract c2 was not cached; its Asset now holds the genesis allocation
\* and the two accepted ones.
C24_Witness ==
    /\ AcceptSucceeded /\ AcceptedId = "c2" /\ "c2" \notin DOMAIN cache0
    /\ request.reveal_outpoints = <<"o2", "o1">>
    /\ Len(ListAt(cacher["c2"], "o1")) = 2 /\ Len(ListAt(cacher["c2"], "o2")) = 1

-----------------------------------------------------------------------------
(* What a Forget removes *)

\* The (node_id, index) pairs of the allocations the assets `ids` of the
\* Cache hold at output o
RECURSIVE PairsHeld(_, _, _)
PairsHeld(cache, ids, o) ==
    IF ids = <<>> THEN <<>>
    ELSE LET l == ListAt(cache[Head(ids)], o) IN
         [k \in 1..Len(l) |-> <<l[k].node_id, l[k].index>>]
            \o PairsHeld(cache, Tail(ids), o)

ForgetSucceeded ==
    Ended /\ request.kind = "Forget" /\ reply.kind = "Success"

\* C25: the Forget request sent to Stash lists the (node_id, index) pair of
\* every allocation the cached Assets held at the output, once per
\* allocation, and nothing else; it is the only Stash request of the Forget;
\* after a successful Forget no cached Asset holds an allocation at the
\* output and the allocations at every other output are what they were.
C25_ForgetRemovesAndLists ==
    /\ (pc = "stash_wait" /\ stash_rpc.kind = "Forget") =>
          LET held == PairsHeld(cache0, cache_assets(cache0), request.outpoint)
              sent == stash_rpc.removal_list IN
          /\ Len(sent) = Len(held)
          /\ \A pair \in Members(sent) \cup Members(held) :
                Times(sent, pair) = Times(held, pair)
    /\ ForgetSucceeded =>
          /\ stash_calls = 1
          /\ HeldAt(cacher, request.outpoint) = {}
          /\ DOMAIN cacher = DOMAIN cache0
          /\ \A id \in DOMAIN cache0 :
                /\ \A o \in OutPoints \ {request.outpoint} :
                      ListAt(cacher[id], o) = ListAt(cache0[id], o)
                /\ cacher[id].supply = cache0[id].supply

\* Two allocations were held at o1 and are gone; the one at o2 stays.
C25_Witness ==
    /\ ForgetSucceeded /\ request.outpoint = "o1"
    /\ Len(PairsHeld(cache0, cache_assets(cache0), "o1")) = 2
    /\ Len(PairsHeld(cacher, cache_assets(cacher), "o2")) = 1

-----------------------------------------------------------------------------
(* Specification of Processor::transfer over amounts at the top of the u64  *)
(* range                                                                     *)

\* Amounts of the allocations of AllocIds when the first one carries the
\* largest u64.  Nothing bounds the sum of the allocations an Asset knows:
\* Runtime::accept adds the allocations of a consignment one by one.
WideAllocAmount == <<U64Modulus - 1, 1, 5>>

RECURSIVE WideAllocsAt(_, _, _)
WideAllocsAt(place, o, k) ==
    IF k > Len(AllocIds) THEN <<>>
    ELSE (IF place[k] = o
          THEN <<[Allocation(k) EXCEPT !.amount = WideAllocAmount[k]]>>
          ELSE <<>>) \o WideAllocsAt(place, o, k + 1)

WideAssetWith(id, prec, place) ==
    [id |-> id, fractional_bits |-> prec,
     supply |-> [issued |-> U64Modulus - 1, total |-> U64Modulus - 1],
     known_allocations |-> [o \in HeldOutPoints |-> WideAllocsAt(place, o, 1)]]

\* Every output is referenced at most once here, so that each allocation is
\* one term of the input sum.
DistinctInputs ==
    {ins \in SeqsUpTo(OutPoints, MaxInputs) :
        \A j, k \in 1..Len(ins) : ins[j] = ins[k] => j = k}

InitWide ==
    /\ \E prec \in Precisions, place \in Placements :
          asset = WideAssetWith("c1", prec, place)
    /\ inputs \in DistinctInputs
    /\ ours \in SeqsUpTo(OutcoinsSet, MaxOurs)
    /\ theirs \in SeqsUpTo(OutcoincealedSet, MaxTheirs)
    /\ change_outpoint \in {None, "h2"}
    /\ t_result = NotCalled
    /\ issue_structure = NoStructure /\ allocations = <<>> /\ precision = 0
    /\ i_result = NotCalled
    /\ CoinsIdle
    /\ RuntimeIdle

SpecWide == InitWide /\ [][NextTransfer]_vars

\* The true sums of a returned Transition
TrueInputs == SumSeq(t_result.transition.input_amounts)
TrueOutputs ==
    SumSeq(Amounts(t_result.transition.ours))
        + SumSeq(Amounts(t_result.transition.theirs))

\* The input sum or the output sum of the call leaves the u64 range.
SumLeavesU64 ==
    \/ InSum >= U64Modulus
    \/ OutSum >= U64Modulus

\* C26: the balance check is sound on the true sums: when the input sum or
\* the output sum of a transfer exceeds the u64 range, transfer returns no
\* Transition whose true sum of output amounts differs from the true sum of
\* the consumed input amounts.
C26_BalanceSoundOnTrueSums ==
    (TransferCalled /\ AllResolve /\ SumLeavesU64 /\ t_result.ok)
        => (TrueInputs = InSum /\ TrueOutputs = TrueInputs)

-----------------------------------------------------------------------------
(* Repeated input references, checked under SpecTransfer *)

\* The sum of the allocations held at the outputs of S, each output once
RECURSIVE HeldSum(_)
HeldSum(S) ==
    IF S = {} THEN 0
    ELSE LET o == CHOOSE x \in S : TRUE IN
         SumSeq(Amounts(asset.known_allocations[o])) + HeldSum(S \ {o})

Referenced == {inputs[k] : k \in 1..Len(inputs)}

\* C27: each allocation of the asset counts at most once in the input total:
\* for every successful transfer the input amounts sum to the allocations
\* held at the distinct referenced outputs, and the outputs of the Transition
\* spend no more than that, also when an output is referenced more than once.
C27_InputsCountedOnce ==
    t_result.ok =>
        /\ TrueInputs = HeldSum(Referenced)
        /\ TrueOutputs <= HeldSum(Referenced)

\* The same, for transfers whose inputs name every output at most once.
InputsCountedOnceForDistinctInputs ==
    (\A j, k \in 1..Len(inputs) : inputs[j] = inputs[k] => j = k)
        => C27_InputsCountedOnce
====
